---------------------------- MODULE Spec2Model ----------------------------
(***************************************************************************)
(* Model of the scheduling rules of the Tipton County probation voice      *)
(* agent (src/agent/tipton_scheduler.py).  A TiptonScheduler is built, a   *)
(* timestamp is drawn, and the scheduler's operations are applied to it.   *)
(***************************************************************************)
EXTENDS Integers, Sequences, FiniteSets, TLC

VARIABLES
    tz,      \* TiptonScheduler.tz, the scheduler instance's only field
    dt,      \* the datetime handed to the operations
    op,      \* the operation that returned last ("none" before the first call)
    result,  \* what that operation returned
    first,   \* history: the first call observed on this scheduler, its
             \* decision and the scheduler's tz before it
    sim      \* simulate_call (src/main.py): its position and its locals

vars == <<tz, dt, op, result, first, sim>>

---------------------------------------------------------------------------
(* Bounds of the model.                                                    *)

\* Number of days, from the first of January of ClockYear on, on which
\* repeated calls are observed.
RepeatDays == 14
\* Largest number of appointments a caller has on record.
MaxAppointments == 2

\* First year of the calendar sample.
FirstYear == 2000
\* Number of consecutive years of the calendar sample (28 years: every
\* month length with every starting weekday).
NumYears == 28
\* Number of months, from January of ClockYear on, whose days are combined
\* with every sampled time of day.
ClockMonths == 1

\* Years outside the run of consecutive years: centuries that are no leap years.
CenturyYears == {1900, 2100}

\* The year of the dates of the test suite (src/agent/test_rules.py).
ClockYear == 2025

---------------------------------------------------------------------------
(* Python values.                                                          *)

None == "None"

\* ZoneInfo("America/Chicago")
TZ == "America/Chicago"

\* class DayType(Enum)
WALK_IN == "walk_in"
COURT_DAY == "court_day"
LATE_THURSDAY == "late_thu"
PHONE_ONLY == "phone_only"

DayType == {WALK_IN, COURT_DAY, LATE_THURSDAY, PHONE_ONLY}

\* class ScheduleResult: __init__(allowed, message, warning=None)
ScheduleResult(allowed, message, warning) ==
    [allowed |-> allowed, message |-> message, warning |-> warning]

\* datetime.time(hour, minute, second=0, microsecond=0)
time(hour, minute) == <<hour, minute, 0, 0>>

\* datetime.time ordering: the tuples (hour, minute, second, microsecond)
\* compared lexicographically.
time_lt(a, b) ==
    \E i \in 1..4 : a[i] < b[i] /\ \A j \in 1..(i - 1) : a[j] = b[j]

time_le(a, b) == a = b \/ time_lt(a, b)

\* datetime.time(): the time of day of a datetime, without its zone.
dt_time(d) == <<d.hour, d.minute, d.second, d.microsecond>>

\* datetime.replace(tzinfo=...): the zone is attached, no field is converted.
replace_tzinfo(d, zone) == [d EXCEPT !.tzinfo = zone]

\* The normalisation done with a conversion: a timestamp without zone read
\* as UTC and moved to the wall clock of the zone, six hours earlier.
with_tz_converting(d, self_tz) ==
    IF d.tzinfo # None THEN d
    ELSE IF d.hour >= 6 THEN [d EXCEPT !.tzinfo = self_tz, !.hour = d.hour - 6]
    ELSE [d EXCEPT !.tzinfo = self_tz, !.hour = d.hour + 18,
                   !.day = IF d.day > 1 THEN d.day - 1 ELSE 1]

\* The normalisation every check starts with.
with_tz(d, self_tz) == IF d.tzinfo = None THEN replace_tzinfo(d, self_tz) ELSE d

---------------------------------------------------------------------------
(* The proleptic Gregorian calendar of datetime and calendar.              *)

_DAYS_IN_MONTH == <<31, 28, 31, 30, 31, 30, 31, 31, 30, 31, 30, 31>>

_is_leap(year) == year % 4 = 0 /\ (year % 100 # 0 \/ year % 400 = 0)

_days_before_year(year) ==
    LET y == year - 1 IN y * 365 + (y \div 4) - (y \div 100) + (y \div 400)

_days_in_month(year, month) ==
    IF month = 2 /\ _is_leap(year) THEN 29 ELSE _DAYS_IN_MONTH[month]

RECURSIVE _days_before_month(_, _)
_days_before_month(year, month) ==
    IF month = 1 THEN 0
    ELSE _days_before_month(year, month - 1) + _days_in_month(year, month - 1)

_ymd2ord(year, month, day) ==
    _days_before_year(year) + _days_before_month(year, month) + day

\* date.weekday(): Monday is 0, Sunday is 6.
weekday_ymd(year, month, day) == (_ymd2ord(year, month, day) + 6) % 7

weekday(d) == weekday_ymd(d.year, d.month, d.day)

\* monthrange with the leap day forgotten.
monthrange_last_day_no_leap(year, month) == _DAYS_IN_MONTH[month]

\* calendar.monthrange(year, month)[1]: the number of days of the month.
monthrange_last_day(year, month) ==
    _DAYS_IN_MONTH[month] + (IF month = 2 /\ _is_leap(year) THEN 1 ELSE 0)

\* strftime("%A") and strftime("%B") in the C locale.
DAY_NAMES ==
    <<"Monday", "Tuesday", "Wednesday", "Thursday", "Friday", "Saturday", "Sunday">>

MONTH_NAMES ==
    <<"January", "February", "March", "April", "May", "June", "July",
      "August", "September", "October", "November", "December">>

DIGITS == <<"0", "1", "2", "3", "4", "5", "6", "7", "8", "9">>

\* strftime("%d"): the day of the month as two decimal digits.
strftime_d(day) == DIGITS[(day \div 10) + 1] \o DIGITS[(day % 10) + 1]

\* check_date.strftime("%A, %B %d")
strftime_A_B_d(year, month, day) ==
    DAY_NAMES[weekday_ymd(year, month, day) + 1] \o ", "
        \o MONTH_NAMES[month] \o " " \o strftime_d(day)

\* ", ".join(strings)
RECURSIVE join(_)
join(strings) ==
    IF Len(strings) = 0 THEN ""
    ELSE IF Len(strings) = 1 THEN strings[1]
    ELSE strings[1] \o ", " \o join(Tail(strings))

\* strings[:n]
slice_to(strings, n) == SubSeq(strings, 1, IF Len(strings) < n THEN Len(strings) ELSE n)

---------------------------------------------------------------------------
(* TiptonScheduler: the time constants of the class.                       *)

OFFICE_OPEN == time(8, 0)
OFFICE_CLOSE == time(17, 0)
LAST_APPOINTMENT == time(16, 30)
LUNCH_START == time(12, 0)
LUNCH_END == time(13, 0)
LUNCH_CUTOFF == time(11, 30)
AFTER_HOURS_START == time(17, 0)
AFTER_HOURS_END == time(19, 30)

\* The number of options get_missed_appointment_options shows.
MAX_OPTIONS == 5

(* The messages of the decisions.                                          *)

MSG_OPENS_AT_8 == "Office opens at 8:00 AM. Please schedule after that time."
MSG_LAST_SLOT ==
    "The last appointment slot is 4:30 PM. Please choose an earlier time."
MSG_WALK_IN_OPEN == "Office is open for walk-in appointments."
MSG_AFTER_HOURS_OPEN == "After-hours appointments available (5:00 PM - 7:30 PM)."
MSG_AFTER_HOURS_ONLY ==
    "After-hours appointments are only from 5:00 PM to 7:30 PM on 1st and 3rd Thursday."
MSG_FRIDAY == "Fridays are reserved for phone reporting only. No walk-in appointments."
MSG_COURT_DAY ==
    "Walk-in appointments are not available on this day due to court obligations. "
        \o "Please schedule for Monday or Wednesday."
MSG_NO_LOCKOUT_DAY == "Lunch lockout does not apply to this day."
MSG_LUNCH_LOCKOUT ==
    "LUNCH LOCKOUT: Office is closed from 12:00 PM to 1:00 PM. "
        \o "To be seen before lunch, you must arrive by 11:30 AM. "
        \o "Please schedule for 11:30 AM or earlier, or 1:00 PM or later."
MSG_SCHEDULED == "Appointment scheduled."
WARN_LUNCH ==
    "Note: Office closes for lunch at 12:00 PM. Arrive by 11:30 AM to be seen before lunch."
MSG_NO_CONFLICT == "No lunch lockout conflict."
MSG_NO_SLOTS ==
    "No available Monday or Wednesday slots remain this month. "
        \o "Please contact the office to schedule for next month."
MSG_MISSED_HEAD == "You have a missed appointment. You can reschedule for: "
MSG_MISSED_TAIL ==
    ". Please note: Missed appointments must be rescheduled for Monday or Wednesday only."
MSG_VALID == "Appointment time is valid."

---------------------------------------------------------------------------
(* TiptonScheduler: the methods.                                           *)

\* _get_thursday_number with day // 7 for (day - 1) // 7.
get_thursday_number_off_by_one(d) == (d.day \div 7) + 1

_get_thursday_number(d) == ((d.day - 1) \div 7) + 1

_is_late_thursday(d) ==
    IF weekday(d) # 3 THEN FALSE
    ELSE _get_thursday_number(d) \in {1, 3}

\* get_day_type reading isoweekday() (Monday is 1) for weekday().
get_day_type_isoweekday(d) ==
    LET wd == weekday(d) + 1 IN
    IF wd \in {0, 2} THEN WALK_IN
    ELSE IF wd = 4 THEN PHONE_ONLY
    ELSE IF wd = 3 /\ _is_late_thursday(d) THEN LATE_THURSDAY
    ELSE COURT_DAY

get_day_type(d) ==
    LET wd == weekday(d) IN
    IF wd \in {0, 2} THEN WALK_IN
    ELSE IF wd = 4 THEN PHONE_ONLY
    ELSE IF wd = 3 /\ _is_late_thursday(d) THEN LATE_THURSDAY
    ELSE COURT_DAY

\* The regular hours closed against LUNCH_START for LAST_APPOINTMENT.
walk_in_hours_until_lunch(current_time) ==
    IF time_lt(current_time, OFFICE_OPEN)
    THEN ScheduleResult(FALSE, MSG_OPENS_AT_8, None)
    ELSE IF time_lt(LUNCH_START, current_time)
    THEN ScheduleResult(FALSE, MSG_LAST_SLOT, None)
    ELSE ScheduleResult(TRUE, MSG_WALK_IN_OPEN, None)

\* The regular hours closed against OFFICE_CLOSE for LAST_APPOINTMENT.
walk_in_hours_until_close(current_time) ==
    IF time_lt(current_time, OFFICE_OPEN)
    THEN ScheduleResult(FALSE, MSG_OPENS_AT_8, None)
    ELSE IF time_lt(OFFICE_CLOSE, current_time)
    THEN ScheduleResult(FALSE, MSG_LAST_SLOT, None)
    ELSE ScheduleResult(TRUE, MSG_WALK_IN_OPEN, None)

\* is_office_open, Monday/Wednesday: regular hours.
walk_in_hours(current_time) ==
    IF time_lt(current_time, OFFICE_OPEN)
    THEN ScheduleResult(FALSE, MSG_OPENS_AT_8, None)
    ELSE IF time_lt(LAST_APPOINTMENT, current_time)
    THEN ScheduleResult(FALSE, MSG_LAST_SLOT, None)
    ELSE ScheduleResult(TRUE, MSG_WALK_IN_OPEN, None)

\* The after-hours window with its end excluded.
late_thursday_hours_open_end(current_time) ==
    IF time_le(AFTER_HOURS_START, current_time) /\ time_lt(current_time, AFTER_HOURS_END)
    THEN ScheduleResult(TRUE, MSG_AFTER_HOURS_OPEN, None)
    ELSE ScheduleResult(FALSE, MSG_AFTER_HOURS_ONLY, None)

\* is_office_open, 1st and 3rd Thursday: after hours.
late_thursday_hours(current_time) ==
    IF time_le(AFTER_HOURS_START, current_time) /\ time_le(current_time, AFTER_HOURS_END)
    THEN ScheduleResult(TRUE, MSG_AFTER_HOURS_OPEN, None)
    ELSE ScheduleResult(FALSE, MSG_AFTER_HOURS_ONLY, None)

\* The closed days without the Friday branch.
closed_day_no_friday(day_type) == ScheduleResult(FALSE, MSG_COURT_DAY, None)

\* is_office_open, Friday, then Tuesday, regular Thursday and weekends.
closed_day(day_type) ==
    IF day_type = PHONE_ONLY
    THEN ScheduleResult(FALSE, MSG_FRIDAY, None)
    ELSE ScheduleResult(FALSE, MSG_COURT_DAY, None)

is_office_open(self_tz, d0) ==
    LET d == with_tz(d0, self_tz)
        day_type == get_day_type(d)
        current_time == dt_time(d)
    IN  IF day_type = WALK_IN THEN walk_in_hours(current_time)
        ELSE IF day_type = LATE_THURSDAY THEN late_thursday_hours(current_time)
        ELSE closed_day(day_type)

\* The lockout window with 13:00 included.
lunch_window_closed_end(current_time) ==
    IF time_lt(LUNCH_CUTOFF, current_time) /\ time_le(current_time, LUNCH_END)
    THEN ScheduleResult(FALSE, MSG_LUNCH_LOCKOUT, None)
    ELSE IF time_le(time(11, 0), current_time) /\ time_le(current_time, LUNCH_CUTOFF)
    THEN ScheduleResult(TRUE, MSG_SCHEDULED, WARN_LUNCH)
    ELSE ScheduleResult(TRUE, MSG_NO_CONFLICT, None)

\* The warning window with 11:30 excluded.
lunch_window_open_warning(current_time) ==
    IF time_lt(LUNCH_CUTOFF, current_time) /\ time_lt(current_time, LUNCH_END)
    THEN ScheduleResult(FALSE, MSG_LUNCH_LOCKOUT, None)
    ELSE IF time_le(time(11, 0), current_time) /\ time_lt(current_time, LUNCH_CUTOFF)
    THEN ScheduleResult(TRUE, MSG_SCHEDULED, WARN_LUNCH)
    ELSE ScheduleResult(TRUE, MSG_NO_CONFLICT, None)

\* check_lunch_lockout on a Monday or Wednesday.
lunch_window(current_time) ==
    IF time_lt(LUNCH_CUTOFF, current_time) /\ time_lt(current_time, LUNCH_END)
    THEN ScheduleResult(FALSE, MSG_LUNCH_LOCKOUT, None)
    ELSE IF time_le(time(11, 0), current_time) /\ time_le(current_time, LUNCH_CUTOFF)
    THEN ScheduleResult(TRUE, MSG_SCHEDULED, WARN_LUNCH)
    ELSE ScheduleResult(TRUE, MSG_NO_CONFLICT, None)

check_lunch_lockout(self_tz, d0) ==
    LET d == with_tz(d0, self_tz)
        day_type == get_day_type(d)
        current_time == dt_time(d)
    IN  IF day_type # WALK_IN
        THEN ScheduleResult(TRUE, MSG_NO_LOCKOUT_DAY, None)
        ELSE lunch_window(current_time)

\* The loop of get_missed_appointment_options over range(day, last_day + 1):
\* available_dates after the days day..last_day have been visited.
RECURSIVE available_dates_from(_, _, _, _)
available_dates_from(year, month, day, last_day) ==
    IF day > last_day THEN <<>>
    ELSE (IF weekday_ymd(year, month, day) \in {0, 2}
          THEN <<strftime_A_B_d(year, month, day)>>
          ELSE <<>>)
         \o available_dates_from(year, month, day + 1, last_day)

\* get_missed_appointment_options with range(current_day, last_day + 1):
\* the current day is a candidate.
get_missed_appointment_options_from_today(self_tz, d0) ==
    LET d == with_tz(d0, self_tz)
        year == d.year
        month == d.month
        last_day == monthrange_last_day(year, month)
        current_day == d.day
        available_dates == available_dates_from(year, month, current_day, last_day)
        dates_str == join(slice_to(available_dates, MAX_OPTIONS))
    IN  IF available_dates = <<>>
        THEN ScheduleResult(FALSE, MSG_NO_SLOTS, None)
        ELSE ScheduleResult(TRUE, MSG_MISSED_HEAD \o dates_str \o MSG_MISSED_TAIL, None)

get_missed_appointment_options(self_tz, d0) ==
    LET d == with_tz(d0, self_tz)
        year == d.year
        month == d.month
        last_day == monthrange_last_day(year, month)
        current_day == d.day
        available_dates == available_dates_from(year, month, current_day + 1, last_day)
        dates_str == join(slice_to(available_dates, MAX_OPTIONS))
    IN  IF available_dates = <<>>
        THEN ScheduleResult(FALSE, MSG_NO_SLOTS, None)
        ELSE ScheduleResult(TRUE, MSG_MISSED_HEAD \o dates_str \o MSG_MISSED_TAIL, None)

\* validate_appointment without the lunch check deciding.
validate_appointment_ignores_lockout(self_tz, d) ==
    LET office_check == is_office_open(self_tz, d)
        lunch_check == check_lunch_lockout(self_tz, d)
    IN  IF ~office_check.allowed THEN office_check
        ELSE ScheduleResult(TRUE, MSG_VALID, lunch_check.warning)

\* validate_appointment without the warning carried forward.
validate_appointment_drops_warning(self_tz, d) ==
    LET office_check == is_office_open(self_tz, d)
        lunch_check == check_lunch_lockout(self_tz, d)
    IN  IF ~office_check.allowed THEN office_check
        ELSE IF ~lunch_check.allowed THEN lunch_check
        ELSE ScheduleResult(TRUE, MSG_VALID, None)

validate_appointment(self_tz, d) ==
    LET office_check == is_office_open(self_tz, d)
        lunch_check == check_lunch_lockout(self_tz, d)
    IN  IF ~office_check.allowed THEN office_check
        ELSE IF ~lunch_check.allowed THEN lunch_check
        ELSE ScheduleResult(TRUE, MSG_VALID, lunch_check.warning)

\* get_friday_instruction
get_friday_instruction ==
    "Phone reporting is active. Fridays are reserved for phone check-ins only. "
        \o "Please leave a message or complete your phone report now. "
        \o "No in-person appointments are available on Fridays."

\* format_payment_msg
format_payment_msg ==
    "Payments are CASH ONLY ($75) and collected at the time of your appointment. "
        \o "However, you are NOT required to have payment in order to be seen. "
        \o "Please report regardless of your ability to pay."

---------------------------------------------------------------------------
(* The timestamps the operations are applied to.                           *)

Years == (FirstYear..(FirstYear + NumYears - 1)) \cup CenturyYears

Hours == 0..23
\* The minutes an opening or closing time falls on, and the last of the hour.
Minutes == {0, 30, 59}
\* (second, microsecond): the start of a minute, the instant after it, and
\* the last instant of the minute.
SubMinutes == {<<0, 0>>, <<0, 1>>, <<59, 999999>>}

TzInfos == {None, TZ}

datetime(year, month, day, hour, minute, second, microsecond, tzinfo) ==
    [year |-> year, month |-> month, day |-> day, hour |-> hour, minute |-> minute,
     second |-> second, microsecond |-> microsecond, tzinfo |-> tzinfo]

\* Every day of the first ClockMonths months of ClockYear at every sampled
\* time of day.
ClockSamples ==
    { datetime(ClockYear, m, d, h, mi, sm[1], sm[2], z) :
        m \in 1..ClockMonths, d \in 1..31, h \in Hours, mi \in Minutes,
        sm \in SubMinutes, z \in TzInfos }

\* Every day of every sampled year at 09:00 America/Chicago, the time of day
\* of test_missed_appointment_options.
CalendarSamples ==
    { datetime(y, m, d, 9, 0, 0, 0, TZ) : y \in Years, m \in 1..12, d \in 1..31 }

\* datetime's constructor raises ValueError for a day the month does not have.
IsValidDate(d) == d.day <= _days_in_month(d.year, d.month)

Timestamps == { d \in ClockSamples \cup CalendarSamples : IsValidDate(d) }

---------------------------------------------------------------------------
(* The state machine.                                                      *)

\* No call is observed: the history is not kept.
Unobserved == [op |-> "unobserved", result |-> None, tz |-> TZ]
\* Calls are observed and none was made yet.
NoCallYet == [op |-> "unset", result |-> None, tz |-> TZ]

\* The history after the call o has returned r.
Observed(o, r) ==
    IF first.op = "unset" THEN [op |-> o, result |-> r, tz |-> tz] ELSE first

\* No call is being simulated.
NoCall == [pc |-> "none"]

\* TiptonScheduler.__init__, and the timestamp of the calls to come.
Init ==
    /\ tz = TZ
    /\ dt \in Timestamps
    /\ op = "none"
    /\ result = None
    /\ first = Unobserved
    /\ sim = NoCall

\* The rebinding of the zone written the wrong way round: self.tz = dt.tzinfo.
IsOfficeOpen_rebinds_tz ==
    /\ op' = "is_office_open"
    /\ result' = is_office_open(tz, dt)
    /\ first' = Observed("is_office_open", is_office_open(tz, dt))
    /\ tz' = dt.tzinfo
    /\ UNCHANGED <<dt, sim>>

GetDayType ==
    /\ op' = "get_day_type"
    /\ result' = get_day_type(dt)
    /\ first' = Observed("get_day_type", get_day_type(dt))
    /\ UNCHANGED <<tz, dt, sim>>

IsOfficeOpen ==
    /\ op' = "is_office_open"
    /\ result' = is_office_open(tz, dt)
    /\ first' = Observed("is_office_open", is_office_open(tz, dt))
    /\ UNCHANGED <<tz, dt, sim>>

CheckLunchLockout ==
    /\ op' = "check_lunch_lockout"
    /\ result' = check_lunch_lockout(tz, dt)
    /\ first' = Observed("check_lunch_lockout", check_lunch_lockout(tz, dt))
    /\ UNCHANGED <<tz, dt, sim>>

GetMissedAppointmentOptions ==
    /\ op' = "get_missed_appointment_options"
    /\ result' = get_missed_appointment_options(tz, dt)
    /\ first' = Observed("get_missed_appointment_options",
                         get_missed_appointment_options(tz, dt))
    /\ UNCHANGED <<tz, dt, sim>>

ValidateAppointment ==
    /\ op' = "validate_appointment"
    /\ result' = validate_appointment(tz, dt)
    /\ first' = Observed("validate_appointment", validate_appointment(tz, dt))
    /\ UNCHANGED <<tz, dt, sim>>

Next ==
    \/ GetDayType
    \/ IsOfficeOpen
    \/ CheckLunchLockout
    \/ GetMissedAppointmentOptions
    \/ ValidateAppointment

Spec == Init /\ [][Next]_vars

\* The timestamps on which repeated calls are observed: the first RepeatDays
\* days of the clock sample, on the hour and the half hour.
RepeatSamples ==
    { d \in ClockSamples : d.month = 1 /\ d.day <= RepeatDays /\ d.minute \in {0, 30} }

\* One scheduler, one timestamp, and the history of the calls kept.
InitRepeat ==
    /\ tz = TZ
    /\ dt \in RepeatSamples
    /\ op = "none"
    /\ result = None
    /\ first = NoCallYet
    /\ sim = NoCall

SpecRepeat == InitRepeat /\ [][Next]_vars

---------------------------------------------------------------------------
(* simulate_call (src/main.py): one simulated phone call, step by step.    *)

\* The status of an appointment record.
Statuses == {"Missed", "Scheduled", "Completed"}

\* The sequences over S of length at most n.
RECURSIVE SeqsUpTo(_, _)
SeqsUpTo(S, n) ==
    IF n = 0 THEN {<<>>}
    ELSE LET shorter == SeqsUpTo(S, n - 1)
         IN  shorter \cup { Append(q, x) : q \in shorter, x \in S }

\* What get_appointments can return: the statuses of the caller's
\* appointments (none when the caller has none or the lookup fails).
AppointmentLists == SeqsUpTo(Statuses, MaxAppointments)

\* any(a.get('status') == 'Missed' for a in appointments)
has_missed(appointments) ==
    \E i \in 1..Len(appointments) : appointments[i] = "Missed"

\* [a for a in appointments if a.get('status') == 'Scheduled']
scheduled(appointments) ==
    \E i \in 1..Len(appointments) : appointments[i] = "Scheduled"

\* The times of day a call is simulated at ("YYYY-MM-DD HH:MM").
CallTimes ==
    {<<7, 59>>, <<8, 0>>, <<11, 0>>, <<11, 30>>, <<11, 31>>, <<12, 30>>, <<13, 0>>,
     <<16, 30>>, <<16, 31>>, <<17, 0>>, <<18, 0>>, <<19, 30>>, <<19, 31>>}

\* parse_datetime: the timestamp typed in, labelled with the zone.
CallSamples ==
    { d \in { datetime(ClockYear, m, day, t[1], t[2], 0, 0, TZ) :
                 m \in 1..ClockMonths, day \in 1..31, t \in CallTimes } :
        IsValidDate(d) }

\* A call comes in on the scheduler main() built, at the simulated time dt.
InitCall ==
    /\ tz = TZ
    /\ dt \in CallSamples
    /\ op = "none"
    /\ result = None
    /\ first = Unobserved
    /\ sim = [pc |-> "incoming", calls |-> <<>>, appointments |-> <<>>,
              day_type |-> None, office_result |-> None, lunch_result |-> None]

\* The scheduler method name was called and returned r.
Called(name, r) ==
    /\ op' = name
    /\ result' = r
    /\ UNCHANGED <<tz, dt, first>>

\* Lines 143-176: the phone number is read and the caller looked up; the
\* call ends on 'quit' and on an unknown caller.
SimLookup ==
    /\ sim.pc = "incoming"
    /\ \E outcome \in {"quit", "unknown", "found"} :
           sim' = [sim EXCEPT !.pc = IF outcome = "found" THEN "day_type" ELSE "returned"]
    /\ UNCHANGED <<tz, dt, op, result, first>>

\* Line 200: day_type = scheduler.get_day_type(sim_dt)
SimGetDayType ==
    /\ sim.pc = "day_type"
    /\ Called("get_day_type", get_day_type(dt))
    /\ sim' = [sim EXCEPT !.pc = "appointments",
                          !.day_type = get_day_type(dt),
                          !.calls = Append(@, "get_day_type")]

\* Lines 203-208: the appointments are fetched, and the day type decides.
SimGetAppointments ==
    /\ sim.pc = "appointments"
    /\ \E a \in AppointmentLists :
           sim' = [sim EXCEPT !.appointments = a,
                             !.pc = IF sim.day_type = PHONE_ONLY
                                    THEN "friday" ELSE "office"]
    /\ UNCHANGED <<tz, dt, op, result, first>>

\* Lines 208-214: Friday, phone reporting.
SimFriday ==
    /\ sim.pc = "friday"
    /\ Called("get_friday_instruction", get_friday_instruction)
    /\ sim' = [sim EXCEPT !.pc = "payment",
                          !.calls = Append(@, "get_friday_instruction")]

\* Lines 217-220: office_result = scheduler.is_office_open(sim_dt)
SimIsOfficeOpen ==
    /\ sim.pc = "office"
    /\ Called("is_office_open", is_office_open(tz, dt))
    /\ sim' = [sim EXCEPT !.office_result = is_office_open(tz, dt),
                          !.calls = Append(@, "is_office_open"),
                          !.pc = IF is_office_open(tz, dt).allowed
                                 THEN "lunch" ELSE "payment"]

\* Lines 223-226: lunch_result = scheduler.check_lunch_lockout(sim_dt)
SimCheckLunchLockout ==
    /\ sim.pc = "lunch"
    /\ Called("check_lunch_lockout", check_lunch_lockout(tz, dt))
    /\ sim' = [sim EXCEPT !.lunch_result = check_lunch_lockout(tz, dt),
                          !.calls = Append(@, "check_lunch_lockout"),
                          !.pc = IF check_lunch_lockout(tz, dt).allowed
                                 THEN "open" ELSE "payment"]

\* Lines 228-249 with the test of has_missed left out: the options are
\* computed for every caller.
SimOfficeOpen_offers_always ==
    /\ sim.pc = "open"
    /\ sim' = [sim EXCEPT !.pc = "missed"]
    /\ UNCHANGED <<tz, dt, op, result, first>>

\* Lines 228-249: the office is open and there is no lockout; the messages
\* are given, and a missed appointment leads on to the options.
SimOfficeOpen ==
    /\ sim.pc = "open"
    /\ sim' = [sim EXCEPT !.pc = IF has_missed(sim.appointments)
                                 THEN "missed" ELSE "payment"]
    /\ UNCHANGED <<tz, dt, op, result, first>>

\* Lines 250-251: missed_options = scheduler.get_missed_appointment_options(sim_dt)
SimMissedOptions ==
    /\ sim.pc = "missed"
    /\ Called("get_missed_appointment_options", get_missed_appointment_options(tz, dt))
    /\ sim' = [sim EXCEPT !.pc = "payment",
                          !.calls = Append(@, "get_missed_appointment_options")]

\* Lines 253-259: the payment information, when asked for; the call ends.
SimPayment ==
    /\ sim.pc = "payment"
    /\ \/ /\ Called("format_payment_msg", format_payment_msg)
          /\ sim' = [sim EXCEPT !.pc = "returned",
                                !.calls = Append(@, "format_payment_msg")]
       \/ /\ sim' = [sim EXCEPT !.pc = "returned"]
          /\ UNCHANGED <<tz, dt, op, result, first>>

NextCall ==
    \/ SimLookup
    \/ SimGetDayType
    \/ SimGetAppointments
    \/ SimFriday
    \/ SimIsOfficeOpen
    \/ SimCheckLunchLockout
    \/ SimOfficeOpen
    \/ SimMissedOptions
    \/ SimPayment

SpecCall == InitCall /\ [][NextCall]_vars

---------------------------------------------------------------------------
(* The civil calendar and clock the properties are stated in, computed     *)
(* without the operators of the model above.                               *)

\* Sakamoto's day-of-week offsets of the months.
MONTH_OFFSETS == <<0, 3, 2, 5, 0, 3, 5, 1, 4, 6, 2, 4>>

\* The day of the week of a civil date: 0 is Monday, ..., 6 is Sunday.
CivilWeekday(year, month, day) ==
    LET y == IF month < 3 THEN year - 1 ELSE year
        sunday0 == (y + (y \div 4) - (y \div 100) + (y \div 400)
                      + MONTH_OFFSETS[month] + day) % 7
    IN  (sunday0 + 6) % 7

DayOfWeek(d) == CivilWeekday(d.year, d.month, d.day)

IsLeapYear(year) == (year % 4 = 0 /\ year % 100 # 0) \/ year % 400 = 0

LengthOfMonth(year, month) ==
    IF month = 2 THEN (IF IsLeapYear(year) THEN 29 ELSE 28)
    ELSE IF month \in {4, 6, 9, 11} THEN 30
    ELSE 31

IsWalkInDay(d) == DayOfWeek(d) \in {0, 2}
IsFriday(d) == DayOfWeek(d) = 4
IsThursday(d) == DayOfWeek(d) = 3

\* The number of Thursdays of d's month on or before d.
ThursdaysUpTo(d) ==
    Cardinality({ k \in 1..d.day : CivilWeekday(d.year, d.month, k) = 3 })

IsLateThursday(d) == IsThursday(d) /\ ThursdaysUpTo(d) \in {1, 3}
IsCourtDay(d) == ~IsWalkInDay(d) /\ ~IsFriday(d) /\ ~IsLateThursday(d)

SecondOfDay(d) == d.hour * 3600 + d.minute * 60 + d.second

\* The time of day of d is strictly before h:m, strictly after h:m.
IsBefore(d, h, m) == SecondOfDay(d) < h * 3600 + m * 60
IsAfter(d, h, m) ==
    \/ SecondOfDay(d) > h * 3600 + m * 60
    \/ SecondOfDay(d) = h * 3600 + m * 60 /\ d.microsecond > 0
\* The time of day of d lies in [h1:m1, h2:m2].
IsWithin(d, h1, m1, h2, m2) == ~IsBefore(d, h1, m1) /\ ~IsAfter(d, h2, m2)

\* The string s contains the string part.
Contains(s, part) ==
    \E i \in 1..(Len(s) - Len(part) + 1) : SubSeq(s, i, i + Len(part) - 1) = part

---------------------------------------------------------------------------
(* Properties of check_lunch_lockout.                                      *)

\* C1: check_lunch_lockout rejects a timestamp if and only if its day is a
\* Monday or Wednesday and its time of day is strictly between 11:30 and
\* 13:00 (so 11:30 and 13:00 themselves are allowed, and so is every time of
\* any other day); a rejection's message contains "LUNCH LOCKOUT".
C1_LunchLockoutWindow ==
    op = "check_lunch_lockout" =>
        /\ result.allowed = FALSE
            <=> (IsWalkInDay(dt) /\ IsAfter(dt, 11, 30) /\ IsBefore(dt, 13, 0))
        /\ result.allowed = FALSE => Contains(result.message, "LUNCH LOCKOUT")

\* A Monday, one microsecond after 11:30: rejected.
C1_Witness ==
    /\ op = "check_lunch_lockout"
    /\ DayOfWeek(dt) = 0
    /\ dt_time(dt) = <<11, 30, 0, 1>>
    /\ result.allowed = FALSE

\* C10: check_lunch_lockout returns a warning if and only if the day is a
\* Monday or Wednesday and the time of day is within [11:00, 11:30]; such a
\* result is allowed (at exactly 11:30 too), and every other result, every
\* rejection included, has no warning.
C10_LunchWarning ==
    op = "check_lunch_lockout" =>
        /\ result.warning # None
            <=> (IsWalkInDay(dt) /\ IsWithin(dt, 11, 0, 11, 30))
        /\ result.warning # None => result.allowed = TRUE
        /\ result.allowed = FALSE => result.warning = None

\* A Wednesday at exactly 11:30: allowed, with the warning.
C10_Witness ==
    /\ op = "check_lunch_lockout"
    /\ DayOfWeek(dt) = 2
    /\ dt_time(dt) = <<11, 30, 0, 0>>
    /\ result.allowed = TRUE
    /\ result.warning = WARN_LUNCH

---------------------------------------------------------------------------
(* Properties of get_day_type.                                             *)

\* The category the office's weekly policy gives a weekday and a day of the month.
PolicyDayType(wd, day) ==
    CASE wd \in {0, 2} -> WALK_IN
      [] wd = 4 -> PHONE_ONLY
      [] wd = 3 /\ (((day - 1) \div 7) + 1) \in {1, 3} -> LATE_THURSDAY
      [] OTHER -> COURT_DAY

\* C2: get_day_type returns one of the four categories for every date, the
\* one its weekday and its day of the month decide: Monday and Wednesday
\* WalkIn, Friday PhoneOnly, a Thursday of ordinal floor((day-1)/7)+1 in
\* {1, 3} LateThursday, every other date CourtDay.
C2_DayTypeTotal ==
    op = "get_day_type" =>
        /\ result \in DayType
        /\ result = PolicyDayType(DayOfWeek(dt), dt.day)

\* A Sunday: CourtDay.
C2_Witness ==
    /\ op = "get_day_type"
    /\ DayOfWeek(dt) = 6
    /\ result = COURT_DAY

\* C3: in every month a Thursday is LateThursday exactly when it is the 1st
\* or the 3rd Thursday of the month by count of the Thursdays on or before
\* it; the 2nd, 4th and 5th Thursdays are CourtDay.
C3_LateThursdayByOccurrence ==
    (op = "get_day_type" /\ IsThursday(dt)) =>
        /\ result = LATE_THURSDAY <=> ThursdaysUpTo(dt) \in {1, 3}
        /\ ThursdaysUpTo(dt) \in {2, 4, 5} => result = COURT_DAY

\* The 5th Thursday of a February (29 days, starting on a Thursday): CourtDay.
C3_Witness ==
    /\ op = "get_day_type"
    /\ IsThursday(dt)
    /\ dt.month = 2
    /\ ThursdaysUpTo(dt) = 5
    /\ result = COURT_DAY

---------------------------------------------------------------------------
(* Properties of is_office_open.                                           *)

\* C4: on a Monday or Wednesday is_office_open allows exactly the times of
\* day within [08:00, 16:30]; before 08:00 it rejects with the opening-time
\* message, after 16:30 with the last-slot message.
C4_WalkInHours ==
    (op = "is_office_open" /\ IsWalkInDay(dt)) =>
        /\ result.allowed = TRUE <=> IsWithin(dt, 8, 0, 16, 30)
        /\ IsBefore(dt, 8, 0) => Contains(result.message, "opens at 8:00 AM")
        /\ IsAfter(dt, 16, 30) => Contains(result.message, "last appointment slot is 4:30 PM")

\* A Monday, one microsecond after 16:30: rejected with the last-slot message.
C4_Witness ==
    /\ op = "is_office_open"
    /\ DayOfWeek(dt) = 0
    /\ dt_time(dt) = <<16, 30, 0, 1>>
    /\ result.allowed = FALSE
    /\ result.message = MSG_LAST_SLOT

\* C5: on a 1st or 3rd Thursday is_office_open allows exactly the times of
\* day within [17:00, 19:30]; every other time is rejected with the
\* after-hours-window message.
C5_LateThursdayHours ==
    (op = "is_office_open" /\ IsLateThursday(dt)) =>
        /\ result.allowed = TRUE <=> IsWithin(dt, 17, 0, 19, 30)
        /\ result.allowed = FALSE =>
               Contains(result.message, "only from 5:00 PM to 7:30 PM")

\* A 3rd Thursday at exactly 19:30: allowed.
C5_Witness ==
    /\ op = "is_office_open"
    /\ IsThursday(dt)
    /\ ThursdaysUpTo(dt) = 3
    /\ dt_time(dt) = <<19, 30, 0, 0>>
    /\ result.allowed = TRUE

\* C6: on a Friday and on a CourtDay (Tuesday, a Thursday that is not the
\* 1st or 3rd, Saturday, Sunday) is_office_open rejects every time of day;
\* on a Friday with the phone-reporting message, on a CourtDay with the
\* message that directs to Monday or Wednesday.
C6_ClosedDays ==
    (op = "is_office_open" /\ (IsFriday(dt) \/ IsCourtDay(dt))) =>
        /\ result.allowed = FALSE
        /\ IsFriday(dt) => Contains(result.message, "phone reporting")
        /\ IsCourtDay(dt) =>
               Contains(result.message, "Please schedule for Monday or Wednesday")

\* A 2nd Thursday within the after-hours window: rejected as a court day.
C6_Witness ==
    /\ op = "is_office_open"
    /\ IsThursday(dt)
    /\ ThursdaysUpTo(dt) = 2
    /\ dt_time(dt) = <<18, 0, 0, 0>>
    /\ result.allowed = FALSE
    /\ result.message = MSG_COURT_DAY

---------------------------------------------------------------------------
(* Properties of get_missed_appointment_options.                           *)

\* The Mondays and Wednesdays of d's month strictly after d's day.
QualifyingDays(d) ==
    { k \in (d.day + 1)..LengthOfMonth(d.year, d.month) :
        CivilWeekday(d.year, d.month, k) \in {0, 2} }

\* The elements of a set of numbers in ascending order.
RECURSIVE Ascending(_)
Ascending(S) ==
    IF S = {} THEN <<>>
    ELSE LET lo == CHOOSE k \in S : \A j \in S : k <= j
         IN  <<lo>> \o Ascending(S \ {lo})

\* The first 5 qualifying days, all of them when there are fewer.
FirstOptions(d) ==
    LET all == Ascending(QualifyingDays(d))
    IN  SubSeq(all, 1, IF Len(all) < 5 THEN Len(all) ELSE 5)

\* "Monday, January 06": a Monday or Wednesday as the message names it.
DayLabel(year, month, k) ==
    (IF CivilWeekday(year, month, k) = 0 THEN "Monday" ELSE "Wednesday")
        \o ", " \o MONTH_NAMES[month] \o " "
        \o (IF k < 10 THEN "0" \o ToString(k) ELSE ToString(k))

\* The labels of a sequence of days, separated by ", ".
RECURSIVE LabelList(_, _, _)
LabelList(year, month, days) ==
    IF Len(days) = 0 THEN ""
    ELSE LabelList(year, month, SubSeq(days, 1, Len(days) - 1))
             \o (IF Len(days) > 1 THEN ", " ELSE "")
             \o DayLabel(year, month, days[Len(days)])

\* dt at another time of day.
AtTime(d, h, m, sec, us) ==
    [d EXCEPT !.hour = h, !.minute = m, !.second = sec, !.microsecond = us]

\* C7: the dates get_missed_appointment_options offers are exactly the first
\* 5 (all when fewer), in ascending order, of the Mondays and Wednesdays
\* strictly after the current day and up to the last day of the current
\* month; no Thursday, no other weekday, not the current day and no date of
\* another month is offered.
C7_MissedOptionsDates ==
    op = "get_missed_appointment_options" =>
        LET offered == FirstOptions(dt) IN
        /\ offered # <<>> =>
               result.message = MSG_MISSED_HEAD
                                  \o LabelList(dt.year, dt.month, offered)
                                  \o MSG_MISSED_TAIL
        /\ offered = <<>> => ~Contains(result.message, "day, ")
        /\ ~Contains(result.message, "Thursday")

\* Asked on the 20th of a leap February that ends on a Monday: the 29th is
\* the last of the dates offered.
C7_Witness ==
    /\ op = "get_missed_appointment_options"
    /\ dt.month = 2 /\ dt.day = 20
    /\ FirstOptions(dt) = <<22, 24, 29>>
    /\ Contains(result.message, "Monday, February 29.")

\* C8: get_missed_appointment_options rejects (contact the office for next
\* month) if and only if no Monday or Wednesday remains strictly after the
\* current day within the current month; otherwise it allows, and the
\* message states "Monday or Wednesday only".  The time of day of the
\* current timestamp does not change the result.
C8_MissedOptionsAllowed ==
    op = "get_missed_appointment_options" =>
        /\ result.allowed = FALSE <=> QualifyingDays(dt) = {}
        /\ result.allowed = FALSE =>
               Contains(result.message, "contact the office to schedule for next month")
        /\ result.allowed = TRUE => Contains(result.message, "Monday or Wednesday only")
        /\ \A t \in {<<0, 0, 0, 0>>, <<12, 30, 0, 1>>, <<23, 59, 59, 999999>>} :
               get_missed_appointment_options(tz, AtTime(dt, t[1], t[2], t[3], t[4]))
                   = result

\* Asked on the last Wednesday of a month that has days left: rejected.
C8_Witness ==
    /\ op = "get_missed_appointment_options"
    /\ DayOfWeek(dt) = 2
    /\ dt.day < LengthOfMonth(dt.year, dt.month)
    /\ result.allowed = FALSE
    /\ result.message = MSG_NO_SLOTS

---------------------------------------------------------------------------
(* Properties of validate_appointment.                                     *)

\* C9: validate_appointment is the short-circuit composition of the two
\* checks: a rejection by is_office_open is returned as it is; otherwise a
\* rejection by check_lunch_lockout is returned as it is; otherwise the
\* result is allowed, "Appointment time is valid.", with the warning of
\* check_lunch_lockout for the same timestamp.
C9_ValidateComposition ==
    op = "validate_appointment" =>
        LET office == is_office_open(tz, dt)
            lunch == check_lunch_lockout(tz, dt)
        IN  /\ office.allowed = FALSE => result = office
            /\ (office.allowed = TRUE /\ lunch.allowed = FALSE) => result = lunch
            /\ (office.allowed = TRUE /\ lunch.allowed = TRUE) =>
                   /\ result.allowed = TRUE
                   /\ result.message = "Appointment time is valid."
                   /\ result.warning = lunch.warning

\* A Monday at 11:00: valid, with the lunch warning carried forward.
C9_Witness ==
    /\ op = "validate_appointment"
    /\ DayOfWeek(dt) = 0
    /\ dt_time(dt) = <<11, 0, 0, 0>>
    /\ result = ScheduleResult(TRUE, MSG_VALID, WARN_LUNCH)

---------------------------------------------------------------------------
(* Properties of the four checks together.                                 *)

CheckOps ==
    {"is_office_open", "check_lunch_lockout", "get_missed_appointment_options",
     "validate_appointment"}

\* What the check named o returns for the timestamp d.
Decision(o, self_tz, d) ==
    CASE o = "is_office_open" -> is_office_open(self_tz, d)
      [] o = "check_lunch_lockout" -> check_lunch_lockout(self_tz, d)
      [] o = "get_missed_appointment_options" -> get_missed_appointment_options(self_tz, d)
      [] o = "validate_appointment" -> validate_appointment(self_tz, d)

\* C11: every check returns a decision (allowed true or false, a non-empty
\* message) for every timestamp, with or without a zone: a refusal is a
\* returned decision.  A timestamp without zone gets the decision of the
\* timestamp with the same date and time of day labelled America/Chicago.
C11_DecisionForEveryTimestamp ==
    op \in CheckOps =>
        /\ result.allowed \in BOOLEAN
        /\ Len(result.message) > 0
        /\ dt.tzinfo = None =>
               result = Decision(op, tz, [dt EXCEPT !.tzinfo = "America/Chicago"])

\* A Monday at 07:30 without zone: the refusal is the returned decision.
C11_Witness ==
    /\ op = "is_office_open"
    /\ dt.tzinfo = None
    /\ DayOfWeek(dt) = 0
    /\ dt_time(dt) = <<7, 30, 0, 0>>
    /\ result = ScheduleResult(FALSE, MSG_OPENS_AT_8, None)

\* C14: validate_appointment allows exactly a Monday or Wednesday within
\* [08:00, 11:30] or [13:00, 16:30] and a 1st or 3rd Thursday within
\* [17:00, 19:30]; its result has a warning only when it is allowed, the day
\* is a Monday or Wednesday and the time is within [11:00, 11:30].
C14_ValidWindows ==
    op = "validate_appointment" =>
        /\ result.allowed = TRUE
            <=> \/ IsWalkInDay(dt) /\ IsWithin(dt, 8, 0, 11, 30)
                \/ IsWalkInDay(dt) /\ IsWithin(dt, 13, 0, 16, 30)
                \/ IsLateThursday(dt) /\ IsWithin(dt, 17, 0, 19, 30)
        /\ result.warning # None =>
               result.allowed = TRUE /\ IsWalkInDay(dt) /\ IsWithin(dt, 11, 0, 11, 30)

\* A Wednesday in the last instant before 13:00: not valid, no warning.
C14_Witness ==
    /\ op = "validate_appointment"
    /\ DayOfWeek(dt) = 2
    /\ dt_time(dt) = <<12, 59, 59, 999999>>
    /\ result.allowed = FALSE
    /\ result.warning = None

\* validate_appointment with the lunch check run before the office check.
LunchFirst(self_tz, d) ==
    LET lunch == check_lunch_lockout(self_tz, d)
        office == is_office_open(self_tz, d)
    IN  IF ~lunch.allowed THEN lunch
        ELSE IF ~office.allowed THEN office
        ELSE ScheduleResult(TRUE, "Appointment time is valid.", lunch.warning)

\* C15: no timestamp is rejected by both is_office_open and
\* check_lunch_lockout (when the lockout rejects, the office is open), so
\* validate_appointment decides the same with the two checks in either order.
C15_ChecksNeverBothReject ==
    /\ (op = "check_lunch_lockout" /\ result.allowed = FALSE) =>
           is_office_open(tz, dt).allowed = TRUE
    /\ (op = "is_office_open" /\ result.allowed = FALSE) =>
           check_lunch_lockout(tz, dt).allowed = TRUE
    /\ op = "validate_appointment" => result = LunchFirst(tz, dt)

\* A Monday at 12:30: the lockout rejects and the office is open.
C15_Witness ==
    /\ op = "check_lunch_lockout"
    /\ DayOfWeek(dt) = 0
    /\ dt_time(dt) = <<12, 30, 0, 0>>
    /\ result.allowed = FALSE
    /\ is_office_open(tz, dt).allowed = TRUE

---------------------------------------------------------------------------
(* Repeated calls on one scheduler.                                        *)

---------------------------------------------------------------------------
(* Properties of simulate_call.                                            *)

\* The scheduler method name was called in this simulated call.
WasCalled(name) == \E i \in 1..Len(sim.calls) : sim.calls[i] = name

\* The office takes walk-ins at d by the policy, and d is in no lunch lockout.
OpenByPolicy(d) ==
    \/ IsWalkInDay(d) /\ IsWithin(d, 8, 0, 16, 30)
    \/ IsLateThursday(d) /\ IsWithin(d, 17, 0, 19, 30)
InLockout(d) == IsWalkInDay(d) /\ IsAfter(d, 11, 30) /\ IsBefore(d, 13, 0)

\* C13: in one simulated call get_missed_appointment_options is called only
\* if an appointment of the caller is 'Missed', and only after get_day_type
\* returned a category other than PhoneOnly, is_office_open allowed and
\* check_lunch_lockout allowed, in that order; on a Friday, on a closed day
\* or time and during the lunch lockout the options are never computed.
C13_MissedOptionsGate ==
    sim.pc # "none" =>
        /\ WasCalled("get_missed_appointment_options") =>
               /\ \E i \in 1..Len(sim.appointments) : sim.appointments[i] = "Missed"
               /\ SubSeq(sim.calls, 1, 4)
                      = <<"get_day_type", "is_office_open", "check_lunch_lockout",
                          "get_missed_appointment_options">>
               /\ sim.day_type # PHONE_ONLY
               /\ sim.office_result.allowed = TRUE
               /\ sim.lunch_result.allowed = TRUE
        /\ (IsFriday(dt) \/ ~OpenByPolicy(dt) \/ InLockout(dt)) =>
               ~WasCalled("get_missed_appointment_options")

\* A caller with a missed appointment on a Monday at 11:00: the call has
\* ended and the options were computed after the three other calls.
C13_Witness ==
    /\ sim.pc = "returned"
    /\ DayOfWeek(dt) = 0
    /\ dt_time(dt) = <<11, 0, 0, 0>>
    /\ sim.appointments = <<"Scheduled", "Missed">>
    /\ sim.calls = <<"get_day_type", "is_office_open", "check_lunch_lockout",
                     "get_missed_appointment_options">>

====
